---- MODULE Spec2Model ----
(***************************************************************************)
(* Model of src/src/health_server.py: the HTTP health/status server of the *)
(* Thakii PDF engine.                                                      *)
(*                                                                         *)
(* One request is handled by one action (the server is single threaded:    *)
(* HTTPServer.serve_forever handles a connection to completion before the  *)
(* next one).  The bytes written to the client are kept as the sequence    *)
(* `wire` of items (status line, header, end of the header block, body).   *)
(* The environment (where the package src.main can be found, the state of  *)
(* the three libraries) is chosen at start-up; what can differ per request *)
(* (uptime readable or not, an interrupt landing in the uptime read, a     *)
(* fault on line 52) is an input of the request.                           *)
(*                                                                         *)
(* Behaviour inherited from the Python standard library (BaseHTTPRequest-  *)
(* Handler, socketserver, the import system, exception classes) is         *)
(* modelled as Python defines it.  The timestamp field of the reports is   *)
(* left out: nothing here depends on it.  Interrupt delivery is modelled   *)
(* at the two places where the code treats it differently: while the loop  *)
(* waits for a connection, and inside the try block of get_uptime.         *)
(***************************************************************************)
EXTENDS Integers, Sequences, FiniteSets, TLC

\* ---- bounds of the model
MaxRequests == 3
MaxInterrupts == 2

\* ---- input sets
Methods == {"GET", "POST", "HEAD"}
Paths == {"/health", "/", "/health/", "/foo"}
FaultKinds == {"none", "once", "persistent"}

\* where `from src.main import CommandLineArgRunner` can be satisfied:
\*   primary  : on the module search path the process starts with
\*   parent   : only from the parent directory of the directory of this file
\*   absent   : nowhere (no package src)
\*   noname   : src.main is importable but defines no CommandLineArgRunner
EntryStates == {"primary", "parent", "absent", "noname"}
\* a library is not installed, importable with __version__, or importable
\* without a __version__ attribute
ModuleStates == {"missing", "versioned", "noversion"}
DepModules == {"cv2", "fpdf", "numpy"}
DepKeys == {"opencv", "fpdf2", "numpy"}

ScriptDir == "scriptdir"
ParentDir == "parentdir"
InitialSysPath == <<ScriptDir>>

VARIABLES phase, socketBound, sysPath, entry, deps, nreq, interrupts,
          faults, lastReq, wire, imports, probe, escaped

vars == <<phase, socketBound, sysPath, entry, deps, nreq, interrupts,
          faults, lastReq, wire, imports, probe, escaped>>

Range(s) == {s[i] : i \in DOMAIN s}

\* ---------------------------------------------------------------------
\* what is written to the client
Item(k, v) == [k |-> k, v |-> v]

\* BaseHTTPRequestHandler.send_response / send_header / end_headers, as the
\* handler calls them on every JSON response: one status line, the two
\* headers, the end of the header block.
JsonHead(code) ==
    << Item("status", code),
       Item("header", <<"Content-type", "application/json">>),
       Item("header", <<"Access-Control-Allow-Origin", "*">>),
       Item("end", <<>>) >>

\* self.wfile.write(json.dumps(doc, indent=2).encode())
JsonBody(doc) == << Item("body", [json |-> TRUE, doc |-> doc]) >>

\* BaseHTTPRequestHandler.send_error(code, message): an HTML error page,
\* Content-Type text/html, no body for a HEAD request.
send_error(code, message, method) ==
    << Item("status", code),
       Item("header", <<"Content-Type", "text/html;charset=utf-8">>),
       Item("end", <<>>) >>
    \o (IF method = "HEAD" THEN <<>>
        ELSE << Item("body", [json |-> FALSE,
                              doc |-> [code |-> code, message |-> message]]) >>)

\* ---------------------------------------------------------------------
\* the reports
health_data(uptime, dependencies) ==
    [ status |-> "healthy",
      service |-> "thakii-pdf-engine",
      version |-> "1.0.0",
      uptime |-> uptime,
      checks |-> [application_import |-> "ok", dependencies |-> dependencies] ]

error_data_blank(e) ==
    [ status |-> "unhealthy", service |-> "thakii-pdf-engine", error |-> "" ]

error_data(e) ==
    [ status |-> "unhealthy", service |-> "thakii-pdf-engine", error |-> e ]

info_data_one_endpoint ==
    [ service |-> "Thakii PDF Engine",
      description |-> "Video-to-PDF conversion service",
      version |-> "1.0.0",
      endpoints |-> ("/health" :> "Health check endpoint") ]

info_data ==
    [ service |-> "Thakii PDF Engine",
      description |-> "Video-to-PDF conversion service",
      version |-> "1.0.0",
      endpoints |-> ("/health" :> "Health check endpoint")
                    @@ ("/" :> "Service information") ]

\* ---------------------------------------------------------------------
\* entry-point resolution (lines 27-34)
ImportSucceeds(sp, e) ==
    \/ e = "primary"
    \/ e = "parent" /\ ParentDir \in Range(sp)

ImportErrorMessage(e) ==
    IF e = "noname"
    THEN "cannot import name 'CommandLineArgRunner' from 'src.main'"
    ELSE "No module named 'src'"

\* the primary import and, on ImportError, the append to sys.path followed
\* by the second import
ImportEntryPoint(sp, e) ==
    IF ImportSucceeds(sp, e)
    THEN [ok |-> TRUE, sysPath |-> sp, error |-> "",
          imports |-> <<"src.main">>]
    ELSE LET sp2 == Append(sp, ParentDir) IN
         [ok |-> ImportSucceeds(sp2, e), sysPath |-> sp2,
          error |-> IF ImportSucceeds(sp2, e) THEN "" ELSE ImportErrorMessage(e),
          imports |-> <<"src.main", "src.main">>]

\* ---------------------------------------------------------------------
\* uptime (lines 111-118): the bare except absorbs every exception raised
\* in the try block, a KeyboardInterrupt delivered there included
UptimeText == "12.34 seconds"

get_uptime(readable, interrupted) ==
    IF readable /\ ~interrupted THEN UptimeText ELSE "unknown"

\* ---------------------------------------------------------------------
\* dependency probe (lines 87-109)
VersionOf(m) == IF m = "cv2" THEN "4.8.0" ELSE IF m = "numpy" THEN "1.26.0" ELSE "2.7.6"

AttributeErrorMessage(m) ==
    IF m = "cv2" THEN "module 'cv2' has no attribute '__version__'"
    ELSE "module 'numpy' has no attribute '__version__'"

\* try: import m; dependencies[key] = m.__version__
\* except ImportError: dependencies[key] = "missing"
VersionProbe(m, st) ==
    IF st = "missing" THEN [raised |-> FALSE, val |-> "missing"]
    ELSE IF st = "versioned" THEN [raised |-> FALSE, val |-> VersionOf(m)]
    ELSE [raised |-> TRUE, val |-> AttributeErrorMessage(m)]

\* try: import fpdf; dependencies["fpdf2"] = "available"
\* except ImportError: dependencies["fpdf2"] = "missing"
FpdfProbe(st) ==
    IF st = "missing" THEN [raised |-> FALSE, val |-> "missing"]
    ELSE [raised |-> FALSE, val |-> "available"]

EmptyMap == [k \in {} |-> ""]

check_dependencies(d) ==
    LET r1 == VersionProbe("cv2", d["cv2"])
        r2 == FpdfProbe(d["fpdf"])
        r3 == VersionProbe("numpy", d["numpy"])
    IN  IF r1.raised
        THEN [raised |-> TRUE, error |-> r1.val, dependencies |-> EmptyMap,
              imports |-> <<"cv2">>]
        ELSE IF r3.raised
        THEN [raised |-> TRUE, error |-> r3.val,
              dependencies |-> ("opencv" :> r1.val) @@ ("fpdf2" :> r2.val),
              imports |-> <<"cv2", "fpdf", "numpy">>]
        ELSE [raised |-> FALSE, error |-> "",
              dependencies |-> ("opencv" :> r1.val) @@ ("fpdf2" :> r2.val)
                               @@ ("numpy" :> r3.val),
              imports |-> <<"cv2", "fpdf", "numpy">>]

NoProbe == [called |-> FALSE, raised |-> FALSE, error |-> "",
            dependencies |-> EmptyMap]

\* ---------------------------------------------------------------------
\* the handlers.  Each returns what the request leaves behind:
\*   wire      what reached the client
\*   sysPath   the module search path afterwards
\*   imports   the import statements executed
\*   probe     the outcome of check_dependencies, when it was called
\*   uptime    whether get_uptime was called
\*   body52    whether line 52 (serialise and write the 200 body) was reached
\*   escaped   whether an exception left the handler
\*   fault     whether any exception was raised while handling
FaultMessage == "Object of type module is not JSON serializable"

send_health_response(sp, e, d, readable, intr, flt) ==
    LET imp == ImportEntryPoint(sp, e) IN
    IF ~imp.ok
    THEN [wire |-> JsonHead(503) \o JsonBody(error_data(imp.error)),
          sysPath |-> imp.sysPath, imports |-> imp.imports, probe |-> NoProbe,
          uptime |-> FALSE, body52 |-> FALSE, escaped |-> FALSE, fault |-> TRUE]
    ELSE
    LET up == get_uptime(readable, intr)
        dp == check_dependencies(d)
        pr == [called |-> TRUE, raised |-> dp.raised, error |-> dp.error,
               dependencies |-> dp.dependencies]
        base == [wire |-> <<>>, sysPath |-> imp.sysPath,
                 imports |-> imp.imports \o dp.imports, probe |-> pr,
                 uptime |-> TRUE, body52 |-> FALSE, escaped |-> FALSE,
                 fault |-> TRUE]
    IN  IF dp.raised
        THEN [base EXCEPT !.wire = JsonHead(503) \o JsonBody(error_data(dp.error))]
        ELSE IF flt = "none"
        THEN [base EXCEPT !.wire = JsonHead(200)
                                   \o JsonBody(health_data(up, dp.dependencies)),
                          !.body52 = TRUE, !.fault = FALSE]
        ELSE IF flt = "once"
        \* line 52 raises after the 200 head is out; the except clause
        \* writes a complete 503 response behind it
        THEN [base EXCEPT !.wire = JsonHead(200) \o JsonHead(503)
                                   \o JsonBody(error_data(FaultMessage)),
                          !.body52 = TRUE]
        \* line 52 raises and so does every later write: the 503 head stays
        \* in the header buffer and the exception leaves the handler
        ELSE [base EXCEPT !.wire = JsonHead(200), !.body52 = TRUE,
                          !.escaped = TRUE]

send_info_response(sp) ==
    [wire |-> JsonHead(200) \o JsonBody(info_data),
     sysPath |-> sp, imports |-> <<>>, probe |-> NoProbe,
     uptime |-> FALSE, body52 |-> FALSE, escaped |-> FALSE, fault |-> FALSE]

NotFound(sp, code, message, method) ==
    [wire |-> send_error(code, message, method),
     sysPath |-> sp, imports |-> <<>>, probe |-> NoProbe,
     uptime |-> FALSE, body52 |-> FALSE, escaped |-> FALSE, fault |-> FALSE]

\* which handler do_GET picks for a path (lines 16-21): exact comparison
Route_normalised(path) ==
    IF path \in {"/health", "/health/"} THEN "health"
    ELSE IF path = "/" THEN "info"
    ELSE "error"

Route(path) ==
    IF path = "/health" THEN "health"
    ELSE IF path = "/" THEN "info"
    ELSE "error"

do_GET(path, sp, e, d, readable, intr, flt) ==
    IF Route(path) = "health"
    THEN send_health_response(sp, e, d, readable, intr, flt)
    ELSE IF Route(path) = "info"
    THEN send_info_response(sp)
    ELSE NotFound(sp, 404, "Not Found", "GET")

\* BaseHTTPRequestHandler.handle_one_request: the class defines do_GET only,
\* every other method is answered by send_error(501, "Unsupported method")
handle_one_request(method, path, sp, e, d, readable, intr, flt) ==
    IF method = "GET"
    THEN do_GET(path, sp, e, d, readable, intr, flt)
    ELSE NotFound(sp, 501, "Unsupported method", method)

\* the loop of run_health_server (lines 133-137): serve_forever hands an
\* exception that leaves a handler to handle_error and goes on; only a
\* KeyboardInterrupt reaching the loop ends it
ServeLoop_fragile(handlerRaised, keyboardInterrupt) ==
    IF keyboardInterrupt \/ handlerRaised THEN "interrupted" ELSE "serving"

ServeLoop(handlerRaised, keyboardInterrupt) ==
    IF keyboardInterrupt THEN "interrupted" ELSE "serving"

\* ---------------------------------------------------------------------
NoReq == [method |-> "", path |-> "", readable |-> FALSE, intr |-> FALSE,
          flt |-> "none", pathBefore |-> InitialSysPath]

Init ==
    /\ phase = "serving"
    /\ socketBound = TRUE
    /\ sysPath = InitialSysPath
    /\ entry \in EntryStates
    /\ deps \in [DepModules -> ModuleStates]
    /\ nreq = 0
    /\ interrupts = 0
    /\ faults = 0
    /\ lastReq = NoReq
    /\ wire = <<>>
    /\ imports = <<>>
    /\ probe = NoProbe
    /\ escaped = FALSE

\* one request, from accept to the end of the handler
HandleRequest ==
    /\ phase = "serving"
    /\ nreq < MaxRequests
    /\ \E method \in Methods, path \in Paths, readable \in BOOLEAN,
          intr \in BOOLEAN, flt \in FaultKinds :
         LET r == handle_one_request(method, path, sysPath, entry, deps,
                                     readable, intr, flt)
         IN  /\ intr => (r.uptime /\ interrupts < MaxInterrupts)
             /\ (flt # "none") => r.body52
             /\ lastReq' = [method |-> method, path |-> path,
                            readable |-> readable, intr |-> intr, flt |-> flt,
                            pathBefore |-> sysPath]
             /\ wire' = r.wire
             /\ sysPath' = r.sysPath
             /\ imports' = r.imports
             /\ probe' = r.probe
             /\ escaped' = r.escaped
             /\ faults' = IF r.fault THEN faults + 1 ELSE faults
             /\ interrupts' = IF intr THEN interrupts + 1 ELSE interrupts
             \* the interrupt was absorbed in get_uptime: none reaches the loop
             /\ phase' = ServeLoop(r.escaped, FALSE)
    /\ nreq' = nreq + 1
    /\ UNCHANGED <<socketBound, entry, deps>>

\* SIGINT while serve_forever waits for a connection: KeyboardInterrupt
\* reaches the except clause of run_health_server
Interrupt ==
    /\ phase = "serving"
    /\ interrupts < MaxInterrupts
    /\ interrupts' = interrupts + 1
    /\ phase' = ServeLoop(FALSE, TRUE)
    /\ UNCHANGED <<socketBound, sysPath, entry, deps, nreq, faults, lastReq,
                   wire, imports, probe, escaped>>

\* httpd.shutdown() returns, run_health_server returns and the process ends
Shutdown ==
    /\ phase = "interrupted"
    /\ phase' = "stopped"
    /\ socketBound' = FALSE
    /\ UNCHANGED <<sysPath, entry, deps, nreq, interrupts, faults, lastReq,
                   wire, imports, probe, escaped>>

Next == HandleRequest \/ Interrupt \/ Shutdown

Spec == Init /\ [][Next]_vars

\* the step after the KeyboardInterrupt is caught always runs
LiveSpec == Spec /\ WF_vars(Shutdown)

\* =====================================================================
\* observations of the last request
StatusItems(w) == SelectSeq(w, LAMBDA x : x.k = "status")
EndItems(w) == SelectSeq(w, LAMBDA x : x.k = "end")
Bodies(w) == SelectSeq(w, LAMBDA x : x.k = "body")
HeaderPairs(w) == {w[i].v : i \in {j \in DOMAIN w : w[j].k = "header"}}

\* the status a client reads: the first status line of the response
FirstStatus(w) == IF w = <<>> THEN 0 ELSE w[1].v

HasJsonBody(w) == Len(Bodies(w)) = 1 /\ Bodies(w)[1].v.json
BodyDoc(w) == Bodies(w)[1].v.doc

Served == nreq > 0
IsGet(path) == Served /\ lastReq.method = "GET" /\ lastReq.path = path
KnownPaths == {"/health", "/"}

\* the entry point is there to be found, by the first import or the second
EntryPointExists == entry \in {"primary", "parent"}

\* ---------------------------------------------------------------------
\* C1 (as claimed): every GET /health for which the entry point resolves is
\* answered 200 with checks.dependencies holding exactly the keys opencv,
\* fpdf2 and numpy.  (Stated for the requests whose body write on line 52
\* does not fail, so that a violation is not one of a broken connection.)
C1_HealthHasThreeDependencies ==
    (IsGet("/health") /\ EntryPointExists /\ lastReq.flt = "none") =>
        /\ FirstStatus(wire) = 200
        /\ HasJsonBody(wire)
        /\ "checks" \in DOMAIN BodyDoc(wire)
        /\ DOMAIN BodyDoc(wire).checks.dependencies = DepKeys

\* C2: a GET /health for which neither import succeeds is answered 503 with
\* status "unhealthy", service "thakii-pdf-engine" and a non-empty error.
C2_UnresolvedEntryIs503 ==
    (IsGet("/health") /\ ~EntryPointExists) =>
        /\ StatusItems(wire) = << Item("status", 503) >>
        /\ HasJsonBody(wire)
        /\ BodyDoc(wire).status = "unhealthy"
        /\ BodyDoc(wire).service = "thakii-pdf-engine"
        /\ "error" \in DOMAIN BodyDoc(wire)
        /\ BodyDoc(wire).error # ""

C2_witness ==
    /\ IsGet("/health")
    /\ ~EntryPointExists
    /\ imports = <<"src.main", "src.main">>
    /\ FirstStatus(wire) = 503

\* C3 (as claimed): a GET /health is answered 503/unhealthy exactly when the
\* entry point cannot be resolved; an unreadable uptime or a dependency that
\* is missing or has no version attribute leaves the answer at 200/healthy,
\* with uptime "unknown" when its read fails.  (Stated for the requests whose
\* body write on line 52 does not fail.)
C3_OnlyEntryPointMakesUnhealthy ==
    (IsGet("/health") /\ lastReq.flt = "none") =>
        /\ (FirstStatus(wire) = 503) <=> ~EntryPointExists
        /\ EntryPointExists =>
              /\ FirstStatus(wire) = 200
              /\ HasJsonBody(wire)
              /\ BodyDoc(wire).status = "healthy"
              /\ ~lastReq.readable => BodyDoc(wire).uptime = "unknown"

\* C4 (as claimed): the dependency probe never raises, and reports for each
\* dependency "missing" when it cannot be imported and otherwise its version
\* ("available" when it has no version attribute), whatever the other two do.
DepKeyOf(m) == IF m = "cv2" THEN "opencv" ELSE IF m = "fpdf" THEN "fpdf2" ELSE "numpy"

ClaimedValue(m, st) ==
    IF st = "missing" THEN "missing"
    ELSE IF st = "versioned" THEN VersionOf(m)
    ELSE "available"

C4_ProbeNeverRaises ==
    (Served /\ probe.called) =>
        /\ ~probe.raised
        /\ \A m \in DepModules :
              /\ DepKeyOf(m) \in DOMAIN probe.dependencies
              /\ probe.dependencies[DepKeyOf(m)] = ClaimedValue(m, deps[m])

\* C5: every GET / is answered 200 with exactly the endpoints "/health" and
\* "/", whatever the entry point and the dependencies are, and imports
\* nothing: no entry-point resolution, no dependency probe, no change of the
\* module search path.
C5_InfoAlways200 ==
    IsGet("/") =>
        /\ StatusItems(wire) = << Item("status", 200) >>
        /\ HasJsonBody(wire)
        /\ DOMAIN BodyDoc(wire).endpoints = {"/health", "/"}
        /\ imports = <<>>
        /\ ~probe.called
        /\ sysPath = lastReq.pathBefore

C5_witness ==
    /\ IsGet("/")
    /\ entry = "absent"
    /\ \A m \in DepModules : deps[m] = "missing"
    /\ FirstStatus(wire) = 200

C7_ExactlyOneResponse ==
    (Served /\ lastReq.method = "GET" /\ lastReq.path \in KnownPaths) =>
        /\ Len(StatusItems(wire)) = 1
        /\ Len(EndItems(wire)) = 1
        /\ HasJsonBody(wire)
        /\ <<"Content-type", "application/json">> \in HeaderPairs(wire)
        /\ <<"Access-Control-Allow-Origin", "*">> \in HeaderPairs(wire)

\* C8: no fault raised while handling a request ends the server: a request
\* step always leaves the server serving, with an answer begun, and the
\* server leaves the serving state only in a step that delivers the
\* external interrupt.
C8_OnlyInterruptStopsServing ==
    [][ /\ (nreq' = nreq + 1) => (phase' = "serving" /\ wire' # <<>>)
        /\ (phase = "serving" /\ phase' # "serving") =>
              (interrupts' = interrupts + 1 /\ nreq' = nreq) ]_vars

\* every request so far raised a fault, and the last of them was answered
C8_witness ==
    /\ nreq >= 2
    /\ faults = nreq
    /\ escaped
    /\ phase = "serving"

\* C9 (as claimed): the module search path after any sequence of requests is
\* what it was before the first.
C9_SearchPathUnchanged == sysPath = InitialSysPath

\* C10 (as claimed): once the external interrupt has arrived while serving,
\* shutdown eventually completes, the socket released.
C10_InterruptLeadsToShutdown ==
    (interrupts > 0) ~> (phase = "stopped" /\ ~socketBound)

====
